---- MODULE Spec2Model ----
(***************************************************************************)
(* A model of the table renderer of ts-markdown (src/unnamed/part_000,     *)
(* the table renderer module) together with the strikethrough renderer     *)
(* (src/src/renderers/strikethrough.ts) that a table cell may dispatch to. *)
(*                                                                         *)
(* A JavaScript string is a sequence of one-character strings, so that     *)
(* lengths, replaceAll, padStart/padEnd, join and split are computed       *)
(* character by character.  The table entry is a record that the renderer  *)
(* mutates in place (escapePipes), and the caller may hand the same entry  *)
(* object to tableRenderer again.                                          *)
(***************************************************************************)
EXTENDS Integers, Sequences, FiniteSets

VARIABLES
    entry,       \* the caller's TableEntry object (mutated in place by escapePipes)
    options,     \* the caller's RenderOptions
    original,    \* the entry as it was when the latest call started
    outputs,     \* one record per finished call: what tableRenderer returned or threw
    cellWidths,  \* getTableMarkdown's cellWidths of the latest call
    headerRow,   \* buildHeaderRow's result of the latest call
    dividerRow,  \* buildDividerRow's result of the latest call
    dataCells,   \* buildDataRows' cells array, one per row, of the latest call
    dataRows     \* buildDataRows' result of the latest call

vars == <<entry, options, original, outputs, cellWidths, headerRow, dividerRow,
          dataCells, dataRows>>

(***************************************************************************)
(* Bounds of the model.                                                    *)
(***************************************************************************)
MaxCols == 2
MaxRows == 2
MaxCalls == 2

(***************************************************************************)
(* Values.                                                                 *)
(***************************************************************************)
NL == "\n"
Undefined == [kind |-> "undefined", s |-> <<>>]
Str(s) == [kind |-> "string", s |-> s]
Strike(s) == [kind |-> "strikethrough", s |-> s]
NoField == [def |-> FALSE, s |-> <<>>]
Field(s) == [def |-> TRUE, s |-> s]

StringColumn(name) ==
    [bare |-> TRUE, name |-> name, field |-> NoField, align |-> "undefined"]
TableColumn(name, field, align) ==
    [bare |-> FALSE, name |-> name, field |-> field, align |-> align]

EmptyMap == [k \in {} |-> Undefined]
PositionalRow(cells) == [positional |-> TRUE, cells |-> cells, map |-> EmptyMap]
TableRow(map) == [positional |-> FALSE, cells |-> <<>>, map |-> map]

(***************************************************************************)
(* String primitives of the JavaScript runtime.                            *)
(***************************************************************************)
RECURSIVE replaceAll(_, _, _)
replaceAll(content, ch, by) ==
    IF content = <<>> THEN <<>>
    ELSE (IF Head(content) = ch THEN by ELSE <<Head(content)>>)
         \o replaceAll(Tail(content), ch, by)

Repeat(ch, n) == [j \in 1..n |-> ch]

padEnd(s, w) == IF Len(s) >= w THEN s ELSE s \o Repeat(" ", w - Len(s))

padStart(s, w, ch) == IF Len(s) >= w THEN s ELSE Repeat(ch, w - Len(s)) \o s

RECURSIVE join(_, _)
join(parts, sep) ==
    IF parts = <<>> THEN <<>>
    ELSE IF Len(parts) = 1 THEN parts[1]
    ELSE parts[1] \o sep \o join(Tail(parts), sep)

RECURSIVE split(_, _)
split(s, ch) ==
    IF \A j \in 1..Len(s) : s[j] # ch THEN <<s>>
    ELSE LET p == CHOOSE j \in 1..Len(s) : s[j] = ch /\ \A m \in 1..(j-1) : s[m] # ch
         IN <<SubSeq(s, 1, p - 1)>> \o split(SubSeq(s, p + 1, Len(s)), ch)


(***************************************************************************)
(* The collaborators of the table renderer: the entry-rendering interface  *)
(* (renderEntries, getMarkdownString) and the strikethrough renderer.      *)
(***************************************************************************)
\* strikethroughRenderer: `~~${getMarkdownString(entry.strikethrough, options)}~~`,
\* the struck entry being a string.  getMarkdownString is the dispatch on the
\* kind of an entry: a null-ish value renders as the empty string, a string as
\* itself, a strikethrough entry through strikethroughRenderer.
strikethroughRenderer(value) == <<"~", "~">> \o value.s \o <<"~", "~">>

getMarkdownString(value) ==
    IF value.kind = "undefined" THEN <<>>
    ELSE IF value.kind = "strikethrough" THEN strikethroughRenderer(value)
    ELSE value.s

\* renderEntries([value], options): the prefix is applied to every rendered
\* line; a null-ish value has no text and renders as the empty string.
renderEntries(value, opts) ==
    IF value.kind = "undefined" THEN <<>>
    ELSE LET lines == split(getMarkdownString(value), NL)
         IN join([j \in DOMAIN lines |-> opts.prefix \o lines[j]], <<NL>>)

(***************************************************************************)
(* escapePipes and the pipe replacers.                                     *)
(***************************************************************************)
Entity == <<"&", "#", "1", "2", "4", ";">>

\* A replacer whose replacement still holds a pipe.
defaultPipeReplacer_KeepsPipe(content) == replaceAll(content, "|", <<"\\", "|">>)

defaultPipeReplacer(content) == replaceAll(content, "|", Entity)

\* A caller-supplied pipeReplacer: content.replaceAll('|', '\\|').
backslashPipeReplacer(content) == replaceAll(content, "|", <<"\\", "|">>)

\* The replacer escapePipes uses: entry.pipeReplacer, defaultPipeReplacer when
\* the entry has none.
pipeReplacer(which, content) ==
    IF which = "undefined" THEN defaultPipeReplacer(content)
    ELSE backslashPipeReplacer(content)

\* escapePipes on a cell: a string leaf, a strikethrough entry (a mapping with
\* one string field), or a value that passes through.
escapeCell(cell, which) ==
    IF cell.kind = "string" THEN Str(pipeReplacer(which, cell.s))
    ELSE IF cell.kind = "strikethrough" THEN Strike(pipeReplacer(which, cell.s))
    ELSE cell

\* escapePipes on an array of cells: the Array.isArray branch escapes every
\* element, and the branch for objects (an array is an object, and there is no
\* else) escapes every element again through Object.keys.
escapeCellArray(target, which) ==
    LET once == [i \in DOMAIN target |-> escapeCell(target[i], which)]
    IN [i \in DOMAIN target |-> escapeCell(once[i], which)]

\* escapePipes on a mapping of cells: every own key once.
escapeCellObject(target, which) == [k \in DOMAIN target |-> escapeCell(target[k], which)]

\* escapePipes on a row: a positional row is an array of cells, a TableRow a
\* mapping of cells (its keys are not touched).
escapeRow(row, which) ==
    IF row.positional
    THEN [row EXCEPT !.cells = escapeCellArray(row.cells, which)]
    ELSE [row EXCEPT !.map = escapeCellObject(row.map, which)]

\* escapePipes on entry.table.rows, an array: both branches again.
escapeRowArray(target, which) ==
    LET once == [i \in DOMAIN target |-> escapeRow(target[i], which)]
    IN [i \in DOMAIN target |-> escapeRow(once[i], which)]

\* escapePipes on a column: a bare name is a string leaf; a TableColumn is a
\* mapping whose name, field and align are string leaves (align holds no pipe).
escapeColumn(column, which) ==
    [column EXCEPT
        !.name = pipeReplacer(which, column.name),
        !.field = IF column.field.def
                  THEN Field(pipeReplacer(which, column.field.s))
                  ELSE column.field]

\* escapePipes on entry.table.columns, an array: both branches again.
escapeColumnArray(target, which) ==
    LET once == [i \in DOMAIN target |-> escapeColumn(target[i], which)]
    IN [i \in DOMAIN target |-> escapeColumn(once[i], which)]

\* escapePipes(entry, entry.pipeReplacer)
escapePipes(e) ==
    [e EXCEPT
        !.columns = escapeColumnArray(e.columns, e.pipeReplacer),
        !.rows = escapeRowArray(e.rows, e.pipeReplacer)]

(***************************************************************************)
(* The table renderer.                                                     *)
(***************************************************************************)
minColumnWidth == 3

getDataRowPropertyName(curr) ==
    IF curr.bare THEN curr.name
    ELSE IF curr.field.def THEN curr.field.s ELSE curr.name

getColumnName(column) == column.name

getColumnHeaderTextLength(column) == Len(column.name)

\* renderCellText(value, options, prefixCellValues = true)
renderCellText(value, opts, prefixCellValues) ==
    renderEntries(value,
        [opts EXCEPT !.prefix = IF prefixCellValues = "false" THEN <<>> ELSE opts.prefix])

\* The halving rounded up instead of truncated.
centerTarget_RoundUp(cellText, cellWidth) ==
    LET twice == 2 * Len(cellText) + (cellWidth - Len(cellText))
    IN IF twice <= 0 THEN 0 ELSE (twice + 1) \div 2

\* cellText.padStart(cellText.length + Math.floor(cellWidth - cellText.length) / 2):
\* the floor is taken of the integer difference, the halving is not floored, and
\* padStart truncates its target length towards zero.
centerTarget(cellText, cellWidth) ==
    LET twice == 2 * Len(cellText) + (cellWidth - Len(cellText))
    IN IF twice <= 0 THEN 0 ELSE twice \div 2

\* The centered text without its padEnd.
padAlign_CenterNoPadEnd(cellText, cellWidth, column) ==
    IF column.bare \/ column.align = "left" \/ column.align = "undefined"
    THEN padEnd(cellText, cellWidth)
    ELSE IF column.align = "center"
    THEN padStart(cellText, (Len(cellText) + cellWidth) \div 2, " ")
    ELSE IF column.align = "right"
    THEN padStart(cellText, cellWidth, " ")
    ELSE cellText

padAlign(cellText, cellWidth, column) ==
    IF column.bare \/ column.align = "left" \/ column.align = "undefined"
    THEN padEnd(cellText, cellWidth)
    ELSE IF column.align = "center"
    THEN padEnd(padStart(cellText, centerTarget(cellText, cellWidth), " "), cellWidth)
    ELSE IF column.align = "right"
    THEN padStart(cellText, cellWidth, " ")
    ELSE cellText

\* A column without align marked as left-aligned.
getLeftSideAlignmentCharacter_DefaultLeft(column) ==
    IF column.bare THEN " "
    ELSE IF column.align = "right" THEN " " ELSE ":"

getLeftSideAlignmentCharacter(column) ==
    IF column.bare THEN " "
    ELSE IF column.align = "left" \/ column.align = "center" THEN ":" ELSE " "

getRightSideAlignmentCharacter(column) ==
    IF column.bare THEN " "
    ELSE IF column.align = "right" \/ column.align = "center" THEN ":" ELSE " "

buildDividerRow(widths, columns) ==
    <<"|">> \o
    join([i \in DOMAIN widths |->
             <<getLeftSideAlignmentCharacter(columns[i])>>
             \o padStart(<<>>, widths[i], "-")
             \o <<getRightSideAlignmentCharacter(columns[i])>>],
         <<"|">>)
    \o <<"|">>

buildHeaderRow(e, widths, columns) ==
    <<"|", " ">> \o
    join([i \in DOMAIN e.columns |->
             padAlign(getColumnName(e.columns[i]), widths[i], columns[i])],
         <<" ", "|", " ">>)
    \o <<" ", "|">>

\* The value of a row in column i: curr[i] of a positional row, and
\* curr[getDataRowPropertyName(column)] of a TableRow; undefined when missing.
rowValue(row, column, i) ==
    IF row.positional
    THEN (IF i \in DOMAIN row.cells THEN row.cells[i] ELSE Undefined)
    ELSE LET key == getDataRowPropertyName(column)
         IN IF key \in DOMAIN row.map THEN row.map[key] ELSE Undefined

\* The candidates without the header's length.
columnCellTexts_NoHeader(e, opts, i) ==
    LET column == e.columns[i]
        defined == SelectSeq(e.rows, LAMBDA r : rowValue(r, column, i) # Undefined)
    IN [j \in DOMAIN defined |->
           Len(renderCellText(rowValue(defined[j], column, i), opts, e.prefixCellValues))]

\* columnCellTexts of column i: the header's length, then the length of the
\* rendered text of every row whose value in the column is not undefined.
\* renderCellText returns a string, with or without line breaks, so the typeof
\* check passes for every value and the throw after it is never reached.
columnCellTexts(e, opts, i) ==
    LET column == e.columns[i]
        defined == SelectSeq(e.rows, LAMBDA r : rowValue(r, column, i) # Undefined)
    IN <<getColumnHeaderTextLength(column)>> \o
       [j \in DOMAIN defined |->
           Len(renderCellText(rowValue(defined[j], column, i), opts, e.prefixCellValues))]

Max2(a, b) == IF a >= b THEN a ELSE b

\* columnCellTexts.reduce((prev, curr) => Math.max(minColumnWidth, prev, curr), 0)
RECURSIVE reduceMax(_, _)
reduceMax(texts, prev) ==
    IF texts = <<>> THEN prev
    ELSE reduceMax(Tail(texts), Max2(minColumnWidth, Max2(prev, Head(texts))))

computeCellWidths(e, opts) ==
    [i \in DOMAIN e.columns |-> reduceMax(columnCellTexts(e, opts, i), 0)]

\* The cells of one data row, as buildDataRows collects them.
buildRowCells(e, widths, columns, opts, row) ==
    IF row.positional
    THEN [i \in DOMAIN row.cells |->
             padAlign(renderCellText(row.cells[i], opts, e.prefixCellValues),
                      widths[i], e.columns[i])]
    ELSE [i \in DOMAIN columns |->
             padAlign(renderCellText(rowValue(row, columns[i], i), opts,
                                     e.prefixCellValues),
                      widths[i], e.columns[i])]

buildDataCells(e, widths, columns, opts) ==
    [r \in DOMAIN e.rows |-> buildRowCells(e, widths, columns, opts, e.rows[r])]

\* `| ${cells.join(' | ')} |`
rowLine(cells) == <<"|", " ">> \o join(cells, <<" ", "|", " ">>) \o <<" ", "|">>

buildDataRows(e, widths, columns, opts) ==
    LET cells == buildDataCells(e, widths, columns, opts)
    IN [r \in DOMAIN e.rows |-> rowLine(cells[r])]

\* A positional row longer than the columns list reaches padAlign with an
\* undefined column, whose .align read throws a TypeError.
padAlignThrows(e) ==
    \E r \in DOMAIN e.rows :
        e.rows[r].positional /\ Len(e.rows[r].cells) > Len(e.columns)

getTableMarkdown(e, opts) ==
    LET widths == computeCellWidths(e, opts)
    IN join(<<buildHeaderRow(e, widths, e.columns),
              buildDividerRow(widths, e.columns)>>
            \o buildDataRows(e, widths, e.columns, opts),
            <<NL>>)


(***************************************************************************)
(* The inputs: the tables and options a caller hands to tableRenderer.     *)
(***************************************************************************)
SeqsUpTo(S, n) == UNION {[1..k -> S] : k \in 0..n}
SeqsFrom1(S, n) == UNION {[1..k -> S] : k \in 1..n}

TableEntry(columns, rows, replacer, prefixCellValues) ==
    [isTable |-> TRUE, columns |-> columns, rows |-> rows,
     pipeReplacer |-> replacer, prefixCellValues |-> prefixCellValues]

\* An entry of another kind: it has no table property.
OtherEntry == [isTable |-> FALSE, columns |-> <<>>, rows |-> <<>>,
               pipeReplacer |-> "undefined", prefixCellValues |-> "undefined"]

RenderOptions(prefix) == [prefix |-> prefix]

Aligns == {"undefined", "left", "center", "right"}

\* The mapping row that gives every key of a set the same cell.
UniformRow(keys, cell) == TableRow([k \in keys |-> cell])

\* Layout tables: every shape and alignment of column, rows that are full or
\* empty.
LayoutColumns ==
    {StringColumn(<<"a">>)} \cup {TableColumn(<<"a">>, NoField, a) : a \in Aligns}
LayoutTexts == {<<"a">>, <<"a", "a", "a", "a">>}
LayoutRows(n) ==
    {PositionalRow([i \in 1..n |-> Str(t)]) : t \in LayoutTexts} \cup {TableRow(EmptyMap)}
LayoutTables ==
    UNION {{TableEntry(cs, rs, "undefined", "undefined") :
                rs \in SeqsUpTo(LayoutRows(Len(cs)), MaxRows)} :
           cs \in SeqsFrom1(LayoutColumns, MaxCols)}

\* Prefixed tables: a prefix in the render options, applied to the cells or not.
PrefixColumns == {TableColumn(<<"a">>, NoField, "center")}
PrefixRows == {PositionalRow(<<Str(<<"a">>)>>), PositionalRow(<<Str(<<"a", NL, "a">>)>>),
               TableRow(EmptyMap)}
PrefixTables ==
    {TableEntry(cs, rs, "undefined", pcv) :
        cs \in SeqsFrom1(PrefixColumns, 1), rs \in SeqsUpTo(PrefixRows, MaxRows),
        pcv \in {"undefined", "true", "false"}}

\* Row-shape tables: positional rows of every length and mapping rows with every
\* subset of the keys, over columns with and without a field key.
ShapeColumns == {StringColumn(<<"a">>), TableColumn(<<"b">>, Field(<<"c">>), "right")}
ShapeKeys == {<<"a">>, <<"c">>}
ShapeText == <<"a", "a", "a", "a">>
ShapeRows ==
    {PositionalRow([i \in 1..k |-> Str(ShapeText)]) : k \in 0..MaxCols}
    \cup {PositionalRow(<<Str(<<"a", NL, "a">>)>>)}
    \cup {UniformRow(ks, Str(ShapeText)) : ks \in SUBSET ShapeKeys}
ShapeTables ==
    {TableEntry(cs, rs, "undefined", "undefined") :
        cs \in SeqsFrom1(ShapeColumns, MaxCols), rs \in SeqsUpTo(ShapeRows, MaxRows)}

\* Escaping tables: pipes in names, field keys and cells, a nested cell entry,
\* the default replacer and a caller's own.
EscapeColumns ==
    {StringColumn(<<"|">>),
     TableColumn(<<"|">>, Field(<<"k">>), "undefined"),
     TableColumn(<<"a">>, Field(<<"|">>), "center")}
EscapeCells == {Str(<<"a", "|">>), Strike(<<"|">>)}
EscapeRows(cs) ==
    {PositionalRow([i \in 1..Len(cs) |-> c]) : c \in EscapeCells}
    \cup {UniformRow({getDataRowPropertyName(cs[i]) : i \in 1..Len(cs)}, c) :
             c \in EscapeCells}
EscapeTables ==
    UNION {{TableEntry(cs, rs, rep, "undefined") :
                rs \in SeqsUpTo(EscapeRows(cs), MaxRows),
                rep \in {"undefined", "backslash"}} :
           cs \in SeqsFrom1(EscapeColumns, MaxCols)}

Init ==
    /\ \/ entry \in LayoutTables /\ options = RenderOptions(<<>>)
       \/ entry \in PrefixTables /\ options = RenderOptions(<<">">>)
       \/ entry \in ShapeTables /\ options = RenderOptions(<<>>)
       \/ entry \in EscapeTables /\ options = RenderOptions(<<>>)
       \/ entry = OtherEntry /\ options = RenderOptions(<<>>)
    /\ original = entry
    /\ outputs = <<>>
    /\ cellWidths = <<>>
    /\ headerRow = <<>>
    /\ dividerRow = <<>>
    /\ dataCells = <<>>
    /\ dataRows = <<>>

(***************************************************************************)
(* tableRenderer(entry, options): one call, on the caller's entry object.  *)
(***************************************************************************)
Returned(markdown) ==
    [status |-> "returned", markdown |-> markdown, blockLevel |-> TRUE, error |-> ""]
Thrown(error) ==
    [status |-> "thrown", markdown |-> <<>>, blockLevel |-> FALSE, error |-> error]

tableRenderer ==
    /\ Len(outputs) < MaxCalls
    /\ original' = entry
    /\ UNCHANGED options
    /\ IF ~entry.isTable
       THEN /\ outputs' = Append(outputs,
                                 Thrown("Entry is not a table entry. Unable to render."))
            /\ UNCHANGED <<entry, cellWidths, headerRow, dividerRow, dataCells, dataRows>>
       ELSE LET e == escapePipes(entry)
                widths == computeCellWidths(e, options)
            IN /\ entry' = e
               /\ cellWidths' = widths
               /\ headerRow' = buildHeaderRow(e, widths, e.columns)
               /\ dividerRow' = buildDividerRow(widths, e.columns)
               /\ IF padAlignThrows(e)
                  THEN /\ outputs' = Append(outputs, Thrown("TypeError"))
                       /\ dataCells' = <<>>
                       /\ dataRows' = <<>>
                  ELSE /\ dataCells' = buildDataCells(e, widths, e.columns, options)
                       /\ dataRows' = [r \in DOMAIN e.rows |-> rowLine(dataCells'[r])]
                       /\ outputs' = Append(outputs,
                              Returned(join(<<headerRow', dividerRow'>> \o dataRows', <<NL>>)))

Next == tableRenderer

Spec == Init /\ [][Next]_vars


(***************************************************************************)
(* Properties.                                                             *)
(***************************************************************************)
Called == Len(outputs) > 0
Last == outputs[Len(outputs)]
RenderedTable == Called /\ original.isTable
ReturnedTable == RenderedTable /\ Last.status = "returned"
Columns == DOMAIN entry.columns
Rows == DOMAIN entry.rows
Chars(s) == {s[j] : j \in DOMAIN s}

\* The rendered text of row r in column i of the escaped entry.
CellText(r, i) ==
    renderCellText(rowValue(entry.rows[r], entry.columns[i], i), options,
                   entry.prefixCellValues)
HasValue(r, i) == rowValue(entry.rows[r], entry.columns[i], i) # Undefined

SetMax(S) == CHOOSE x \in S : \A y \in S : y <= x

RECURSIVE WidthsUpTo(_, _)
WidthsUpTo(widths, k) == IF k = 0 THEN 0 ELSE widths[k] + 3 + WidthsUpTo(widths, k - 1)

\* Where field i starts in a header or data line "| f1 | f2 | ... |".
FieldStart(widths, i) == 3 + WidthsUpTo(widths, i - 1)

\* A line is "| " f1 " | " ... " | " fk " |" with every fi of its column's width.
IsGridLine(line, widths, k) ==
    /\ Len(line) = (IF k = 0 THEN 4 ELSE 1 + WidthsUpTo(widths, k))
    /\ line[1] = "|" /\ line[2] = " "
    /\ line[Len(line) - 1] = " " /\ line[Len(line)] = "|"
    /\ \A i \in 1..k :
         LET after == FieldStart(widths, i) + widths[i]
         IN /\ line[after] = " " /\ line[after + 1] = "|"
            /\ i < k => line[after + 2] = " "

GridField(line, widths, i) ==
    SubSeq(line, FieldStart(widths, i), FieldStart(widths, i) + widths[i] - 1)


\* C1: whenever a cell with a defined value resolves, through renderEntries, to a
\* string that contains a line break, the call throws and returns no markdown.
C1_MultiLineCellThrows ==
    (RenderedTable /\ \E r \in Rows, i \in Columns : HasValue(r, i) /\ NL \in Chars(CellText(r, i)))
        => (Last.status = "thrown" /\ Last.markdown = <<>>)

\* The string leaves of an entry with the replacer applied to each exactly once.
OnceCell(cell, which) ==
    IF cell.kind = "undefined" THEN cell
    ELSE [cell EXCEPT !.s = pipeReplacer(which, cell.s)]
OnceRow(row, which) ==
    [row EXCEPT !.cells = [i \in DOMAIN row.cells |-> OnceCell(row.cells[i], which)],
                !.map = [k \in DOMAIN row.map |-> OnceCell(row.map[k], which)]]
OnceColumn(column, which) ==
    [column EXCEPT !.name = pipeReplacer(which, column.name),
                   !.field = IF column.field.def
                             THEN Field(pipeReplacer(which, column.field.s))
                             ELSE column.field]
EscapedOnce(e) ==
    [e EXCEPT !.columns = [i \in DOMAIN e.columns |-> OnceColumn(e.columns[i], e.pipeReplacer)],
              !.rows = [r \in DOMAIN e.rows |-> OnceRow(e.rows[r], e.pipeReplacer)]]

\* C2: one call applies the pipe replacer exactly once to every string leaf of
\* the entry: the entry after the call is the entry before it with every string
\* leaf replaced by the replacer's result on it, for the default replacer and
\* for a caller's own.
C2_ReplacerAppliedOnce == RenderedTable => entry = EscapedOnce(original)

\* The divider segment of column i starts right after the i-1 segments before it.
SegmentStart(i) == 2 + WidthsUpTo(cellWidths, i - 1)
LeftAligned(column) == ~column.bare /\ column.align \in {"left", "center"}
RightAligned(column) == ~column.bare /\ column.align \in {"right", "center"}

\* C3 (as the spec states it): the divider row is "|", then for every column w
\* dashes, preceded by ":" iff the column is structured with align left or
\* center, followed by ":" iff it is structured with align right or center,
\* without any space, and a "|".
C3_DividerRowWithoutSpaces ==
    RenderedTable =>
        /\ " " \notin Chars(dividerRow)
        /\ dividerRow =
             <<"|">> \o join([i \in Columns |->
                                 (IF LeftAligned(entry.columns[i]) THEN <<":">> ELSE <<>>)
                                 \o Repeat("-", cellWidths[i])
                                 \o (IF RightAligned(entry.columns[i]) THEN <<":">> ELSE <<>>)],
                             <<"|">>) \o <<"|">>

\* C3 (amended): the divider row follows the header row in the output and is
\* "|", then for every column a segment of w + 2 characters and a "|": the
\* segment is w dashes between a left character,
\* ":" iff the column is structured with align left or center and a space
\* otherwise, and a right character, ":" iff the column is structured with align
\* right or center and a space otherwise.
C3_DividerRowSegments ==
    RenderedTable =>
        /\ ReturnedTable =>
             SubSeq(Last.markdown, Len(headerRow) + 2, Len(headerRow) + 1 + Len(dividerRow))
                 = dividerRow
        /\ Len(dividerRow) = 1 + WidthsUpTo(cellWidths, Len(entry.columns))
        /\ dividerRow[1] = "|"
        /\ \A i \in Columns :
             LET start == SegmentStart(i)
                 w == cellWidths[i]
             IN /\ dividerRow[start] = (IF LeftAligned(entry.columns[i]) THEN ":" ELSE " ")
                /\ \A j \in 1..w : dividerRow[start + j] = "-"
                /\ dividerRow[start + w + 1] =
                       (IF RightAligned(entry.columns[i]) THEN ":" ELSE " ")
                /\ dividerRow[start + w + 2] = "|"

\* A rendered table with a bare column, a column without align and a centered one.
C3_Witness ==
    /\ RenderedTable
    /\ \E i, j \in Columns :
         /\ entry.columns[i].bare
         /\ ~entry.columns[j].bare /\ entry.columns[j].align = "center"

\* C4: every data row of the output holds exactly columns.length cells, for a
\* positional row of any length up to columns.length and for a mapping row with
\* any subset of the field keys.
C4_RowsHaveAllCells ==
    ReturnedTable => \A r \in Rows : Len(dataCells[r]) = Len(entry.columns)


\* What one call returns or throws on a table entry e that is not yet escaped.
CallResult(e, opts) ==
    IF padAlignThrows(escapePipes(e)) THEN Thrown("TypeError")
    ELSE Returned(getTableMarkdown(escapePipes(e), opts))

\* The table whose single row is the mapping that sends every column's field key
\* to the cell the positional row has in that column.
KeysOf(e) == {getDataRowPropertyName(e.columns[i]) : i \in DOMAIN e.columns}
ColumnOfKey(e, k) == CHOOSE i \in DOMAIN e.columns : getDataRowPropertyName(e.columns[i]) = k
AsMappingTable(e) ==
    [e EXCEPT !.rows = <<TableRow([k \in KeysOf(e) |-> e.rows[1].cells[ColumnOfKey(e, k)]])>>]

\* The first call was on a table with a single positional row that has a defined
\* cell for every column, the columns having distinct field keys.
SinglePositionalRow ==
    /\ Len(outputs) = 1 /\ original.isTable
    /\ Len(original.rows) = 1 /\ original.rows[1].positional
    /\ Len(original.rows[1].cells) = Len(original.columns)
    /\ Cardinality(KeysOf(original)) = Len(original.columns)

\* C5: a table whose single row is the positional array [v1..vn] renders to the
\* same markdown as the table whose single row maps every column's field key to
\* vi, for any column names and field keys.
C5_PositionalAsMapping ==
    SinglePositionalRow => Last = CallResult(AsMappingTable(original), options)

\* C6: every column's width is max(3, L), L being the greatest of the length of
\* the column's escaped name and of the rendered escaped texts of the rows that
\* have a defined value in the column; under the default replacer a string cell
\* counts with five more characters for each of its pipes.
NumPipes(s) == Cardinality({j \in DOMAIN s : s[j] = "|"})
C8_LineCount ==
    ReturnedTable => Len(split(Last.markdown, NL)) = Len(entry.rows) + 2

\* The spaces padAlign puts on the left of a text of length n in width w.
LeftSpaces(column, n, w) ==
    IF column.bare \/ column.align \in {"undefined", "left"} THEN 0
    ELSE IF column.align = "right" THEN w - n
    ELSE (w - n) \div 2

IsPadded(cell, text, w, column) ==
    LET left == LeftSpaces(column, Len(text), w)
    IN cell = Repeat(" ", left) \o text \o Repeat(" ", w - Len(text) - left)

\* C9: padAlign(text, width, column), the text being no longer than the width,
\* is the text between spaces to the width: all of them on the right for a bare
\* column, no align or align left, all on the left for align right, and
\* floor((width - text.length) / 2) on the left, the rest on the right, for
\* align center.
C9_PadAlign ==
    /\ RenderedTable =>
         \A i \in Columns :
            /\ Len(entry.columns[i].name) <= cellWidths[i]
            /\ IsPadded(GridField(headerRow, cellWidths, i), entry.columns[i].name,
                        cellWidths[i], entry.columns[i])
    /\ ReturnedTable =>
         \A r \in Rows : \A i \in DOMAIN dataCells[r] :
            /\ Len(CellText(r, i)) <= cellWidths[i]
            /\ IsPadded(dataCells[r][i], CellText(r, i), cellWidths[i], entry.columns[i])

\* A centered column with an odd surplus, a right-aligned column with a surplus
\* and a bare column with a surplus.
C9_Witness ==
    /\ ReturnedTable
    /\ \E i \in Columns :
         /\ entry.columns[i].align = "center"
         /\ (cellWidths[i] - Len(entry.columns[i].name)) % 2 = 1
    /\ \E r \in Rows : \E i \in DOMAIN dataCells[r] :
         entry.columns[i].align = "right" /\ Len(CellText(r, i)) < cellWidths[i]

\* C10: with the default pipe replacer, a call on the entry object of an earlier
\* call that returned returns the same result again.
C10_SecondRenderIdentical ==
    \A k \in 1..(Len(outputs) - 1) :
        (entry.pipeReplacer = "undefined" /\ outputs[k].status = "returned")
            => outputs[k + 1] = outputs[k]

\* Two calls on a table whose names or cells held pipes that the first call
\* escaped.
C10_Witness ==
    /\ Len(outputs) = 2 /\ original.isTable /\ entry.pipeReplacer = "undefined"
    /\ outputs[1].status = "returned"
    /\ \E i \in Columns : "&" \in Chars(entry.columns[i].name)
    /\ \E r \in Rows : \E i \in DOMAIN entry.rows[r].cells :
         "&" \in Chars(entry.rows[r].cells[i].s)

====
